---- MODULE Spec2Model ----
(***************************************************************************)
(* Voltage-ramp sweep controller of the ion trap GUI (src/main_app.py):    *)
(* MainWindow.preview_volt_evol, simul_volt_evol, resume_simul_volt_evol,  *)
(* end_volt_evol, toggle_volt_evol, lock_rf_control, unlock_rf_control and *)
(* the signal connections of init_rf_control.                              *)
(*                                                                         *)
(* All handlers run on the single Qt event loop, so every handler is one   *)
(* atomic action.  A handler is written as a function from the state       *)
(* record before it to the record after it; an instrument call that raises *)
(* cuts the handler at that call, keeping the assignments made before it.  *)
(* Time is abstract: the periodic timer may tick whenever it is active, a  *)
(* one-shot fires some time after it was scheduled, and the only ordering  *)
(* kept is the one that holds for every interval: the 1000 ms re-enable    *)
(* one-shot fires before every one-shot scheduled after it.                *)
(***************************************************************************)
EXTENDS Integers, Sequences, FiniteSets, TLC

\* ---------------------------------------------------------------- bounds
MaxSteps == 2        \* rf_num_steps ranges over 1..MaxSteps
MaxRemaining == 1    \* rf_timer.remainingTime() ranges over 0..MaxRemaining
MaxPending == 2      \* one-shot timers pending at the same time
MaxSim == 3          \* rf_sim is followed up to MaxSim
MaxProfileSteps == 3 \* rf_num_steps ranges over 1..MaxProfileSteps in SpecProfile
MaxVolt == 1         \* the trap voltages range over 0..MaxVolt in SpecProfile

\* ------------------------------------------------------------- constants
RF_OPEN_TRAP_FILENAME == "/var/user/open_trap.lsw"
RF_CLOSE_TRAP_FILENAME == "/var/user/close_trap.lsw"
OpenTrapText == "Open Trap"
CloseTrapText == "Close Trap"
Unset == -1          \* an attribute that has not been assigned yet
NoFile == <<>>       \* no list-sweep program stored under a file name

Btns == {"open", "close"}
Files == {RF_OPEN_TRAP_FILENAME, RF_CLOSE_TRAP_FILENAME}
FileOf(btn) == IF btn = "open" THEN RF_OPEN_TRAP_FILENAME ELSE RF_CLOSE_TRAP_FILENAME
DefaultText == [b \in Btns |-> IF b = "open" THEN OpenTrapText ELSE CloseTrapText]

\* Values the input widgets take while the sweep controller is followed.
OpenVolts == {0, 2}
CloseVolts == {1}
StepCounts == 1..MaxSteps
StepInts == {<<1, 1>>}     \* the decimal the spin box shows, <<numerator, denominator>>
Formulas == {"t"}
Remainings == 0..MaxRemaining

\* Values the input widgets take while the profile computation is followed.
ProfileVolts == 0..MaxVolt
ProfileStepCounts == 1..MaxProfileSteps
ProfileStepInts == {<<1, 10>>, <<1, 2>>, <<1, 1>>}
ProfileFormulas == {"", "t", "t**2", "(t-1)**2", "0*t", "1"}

\* ------------------------------------------------- numbers (numpy floats)
\* A finite value is <<n, d>> with d > 0 in lowest terms; d = 0 is what a
\* numpy division by zero gives: <<0, 0>> nan, <<1, 0>> inf, <<-1, 0>> -inf.
RECURSIVE Gcd(_, _)
Gcd(a, b) == IF b = 0 THEN a ELSE Gcd(b, a % b)
Abs(x) == IF x < 0 THEN -x ELSE x
Sign(x) == IF x < 0 THEN -1 ELSE IF x > 0 THEN 1 ELSE 0
NaN == <<0, 0>>
Num(n, d) ==
    IF d = 0 THEN <<Sign(n), 0>>
    ELSE LET g == Gcd(Abs(n), Abs(d)) IN <<(Sign(d) * n) \div g, Abs(d) \div g>>
Flt(i) == <<i, 1>>
IsFinite(x) == x[2] # 0
FAdd(x, y) ==
    IF IsFinite(x) /\ IsFinite(y) THEN Num(x[1] * y[2] + y[1] * x[2], x[2] * y[2])
    ELSE IF IsFinite(x) THEN y
    ELSE IF IsFinite(y) THEN x
    ELSE IF x = y THEN x ELSE NaN
FNeg(x) == <<-x[1], x[2]>>
FSub(x, y) == FAdd(x, FNeg(y))
FMul(x, y) ==
    IF IsFinite(x) /\ IsFinite(y) THEN Num(x[1] * y[1], x[2] * y[2])
    ELSE <<Sign(x[1]) * Sign(y[1]), 0>>
FDiv(x, y) ==
    IF IsFinite(x) /\ IsFinite(y) THEN Num(x[1] * y[2], x[2] * y[1])
    ELSE IF IsFinite(y) THEN <<x[1] * Sign(y[1]), 0>>
    ELSE IF IsFinite(x) THEN Flt(0)
    ELSE NaN
Reverse(s) == [i \in 1..Len(s) |-> s[Len(s) + 1 - i]]

\* ------------------------------------------- numbers (rounding of doubles)
\* The values of t and V_t are followed exactly (above); the rounding of the
\* doubles is followed where it decides a count: the number of samples of
\* np.arange and int(T * 1000).
\* Naturals of any size: limbs base 2^14, least significant first.
Limb == 16384
Bigs == Seq(Nat)
Pow2[k \in Nat] == IF k = 0 THEN 1 ELSE 2 * Pow2[k - 1]
BitLen[n \in Nat] == IF n = 0 THEN 0 ELSE 1 + BitLen[n \div 2]
BNorm[x \in Bigs] ==
    IF Len(x) > 0 /\ x[Len(x)] = 0 THEN BNorm[SubSeq(x, 1, Len(x) - 1)] ELSE x
Big(n) == BNorm[<<n % Limb, (n \div Limb) % Limb, n \div (Limb * Limb)>>]
\* x[1] * x[2] + x[3], x[2] and x[3] small
BMulCarry[x \in Bigs \X Nat \X Nat] ==
    IF x[1] = <<>> THEN Big(x[3])
    ELSE <<(x[1][1] * x[2] + x[3]) % Limb>> \o
         BMulCarry[<<Tail(x[1]), x[2], (x[1][1] * x[2] + x[3]) \div Limb>>]
BMulSmall(x, k) == BNorm[BMulCarry[<<x, k, 0>>]]
\* (x[3] * Limb^Len(x[1]) + x[1]) divided by the small x[2], from the most
\* significant limb: quotient and remainder
BDivRem[x \in Bigs \X Nat \X Nat] ==
    IF x[1] = <<>> THEN [q |-> <<>>, r |-> x[3]]
    ELSE LET cur == x[3] * Limb + x[1][Len(x[1])]
             rest == BDivRem[<<SubSeq(x[1], 1, Len(x[1]) - 1), x[2], cur % x[2]>>]
         IN [q |-> rest.q \o <<cur \div x[2]>>, r |-> rest.r]
BDivSmall(x, k) == LET d == BDivRem[<<x, k, 0>>] IN [q |-> BNorm[d.q], r |-> d.r]
\* x[1] against x[2], limbs x[3] and below: -1, 0, 1
BCmpAt[x \in Bigs \X Bigs \X Nat] ==
    IF x[3] = 0 THEN 0
    ELSE IF x[1][x[3]] # x[2][x[3]] THEN (IF x[1][x[3]] < x[2][x[3]] THEN -1 ELSE 1)
    ELSE BCmpAt[<<x[1], x[2], x[3] - 1>>]
BCmp(x, y) ==
    IF Len(x) # Len(y) THEN (IF Len(x) < Len(y) THEN -1 ELSE 1)
    ELSE BCmpAt[<<x, y, Len(x)>>]
\* x[1] + x[2] + x[3]
BAddCarry[x \in Bigs \X Bigs \X Nat] ==
    IF x[1] = <<>> /\ x[2] = <<>> THEN Big(x[3])
    ELSE LET a == IF x[1] = <<>> THEN 0 ELSE x[1][1]
             b == IF x[2] = <<>> THEN 0 ELSE x[2][1]
         IN <<(a + b + x[3]) % Limb>> \o
            BAddCarry[<<IF x[1] = <<>> THEN <<>> ELSE Tail(x[1]),
                        IF x[2] = <<>> THEN <<>> ELSE Tail(x[2]),
                        (a + b + x[3]) \div Limb>>]
BAdd(x, y) == BNorm[BAddCarry[<<x, y, 0>>]]
\* x[1] - x[2] - x[3] for x[1] >= x[2] + x[3]
BSubBorrow[x \in Bigs \X Bigs \X Nat] ==
    IF x[1] = <<>> THEN <<>>
    ELSE LET b == IF x[2] = <<>> THEN 0 ELSE x[2][1]
             d == x[1][1] - b - x[3]
         IN <<d % Limb>> \o
            BSubBorrow[<<Tail(x[1]), IF x[2] = <<>> THEN <<>> ELSE Tail(x[2]),
                         IF d < 0 THEN 1 ELSE 0>>]
BSub(x, y) == BNorm[BSubBorrow[<<x, y, 0>>]]
BBits(x) == IF x = <<>> THEN 0 ELSE 14 * (Len(x) - 1) + BitLen[x[Len(x)]]
BOdd(x) == x # <<>> /\ x[1] % 2 = 1
\* x[1] * 2^x[2]
BShl[x \in Bigs \X Nat] ==
    IF x[2] = 0 THEN x[1]
    ELSE IF x[2] >= 14 THEN BShl[<<<<0>> \o x[1], x[2] - 14>>]
    ELSE BMulSmall(x[1], Pow2[x[2]])
\* floor(x[1] / 2^x[2]) and what was cut off: half |-> the cut-off part compared
\* with half of 2^x[2] (-1 below, 0 equal, 1 above), any |-> it is nonzero
BShr[x \in Bigs \X Nat] ==
    IF x[1] = <<>> THEN [q |-> <<>>, half |-> -1, any |-> FALSE]
    ELSE IF x[2] <= 14
    THEN LET d == BDivSmall(x[1], Pow2[x[2]]) IN
         [q |-> d.q,
          half |-> IF 2 * d.r < Pow2[x[2]] THEN -1 ELSE IF 2 * d.r = Pow2[x[2]] THEN 0 ELSE 1,
          any |-> d.r # 0]
    ELSE LET up == BShr[<<Tail(x[1]), x[2] - 14>>] IN
         [q |-> up.q,
          half |-> IF up.half = 0 /\ x[1][1] # 0 THEN 1 ELSE up.half,
          any |-> up.any \/ x[1][1] # 0]
BInt(x) == IF x = <<>> THEN 0
           ELSE x[1] + Limb * (IF Len(x) > 1 THEN x[2] ELSE 0)
                     + Limb * Limb * (IF Len(x) > 2 THEN x[3] ELSE 0)
\* IEEE 754 binary64, positive: m * 2^e with 2^52 <= m < 2^53.
\* Round to nearest, ties to even: x.q * 2^e, the part cut off given by x.half.
DRound(x, e) ==
    LET m == IF x.half = 1 \/ (x.half = 0 /\ BOdd(x.q)) THEN BAdd(x.q, Big(1)) ELSE x.q
    IN IF BBits(m) = 54 THEN [m |-> BDivSmall(m, 2).q, e |-> e + 1] ELSE [m |-> m, e |-> e]
\* x * 2^e to 53 bits
DNormal[x \in Bigs \X Int] ==
    IF BBits(x[1]) <= 53
    THEN [m |-> BShl[<<x[1], 53 - BBits(x[1])>>], e |-> x[2] - (53 - BBits(x[1]))]
    ELSE DRound(BShr[<<x[1], BBits(x[1]) - 53>>], x[2] + (BBits(x[1]) - 53))
\* the double nearest to x[1] / x[2], both small; the last bit of the quotient
\* stands for a remainder
Double[x \in Nat \X Nat] ==
    LET k == 53 + BitLen[x[2]]
        d == BDivSmall(BShl[<<Big(x[1]), k>>], x[2])
    IN DNormal[<<BAdd(BMulSmall(d.q, 2), Big(IF d.r = 0 THEN 0 ELSE 1)), -(k + 1)>>]
Doubles == [m : Bigs, e : Int]
\* x[1] * x[2], x[2] a small integer
DMul[x \in Doubles \X Nat] == DNormal[<<BMulSmall(x[1].m, x[2]), x[1].e>>]
\* binary long division of x[1] by x[2], until the quotient x[3] has 53 bits
DivBits[x \in Bigs \X Bigs \X Bigs] ==
    IF BBits(x[3]) = 53 THEN [q |-> x[3], half |-> BCmp(x[1], x[2])]
    ELSE IF BCmp(x[1], x[2]) >= 0
    THEN DivBits[<<BMulSmall(BSub(x[1], x[2]), 2), x[2], BAdd(BMulSmall(x[3], 2), Big(1))>>]
    ELSE DivBits[<<BMulSmall(x[1], 2), x[2], BMulSmall(x[3], 2)>>]
\* x[1] / x[2]
DDiv[x \in Doubles \X Doubles] ==
    DRound(DivBits[<<x[1].m, x[2].m, <<>>>>],
           x[1].e - x[2].e - (IF BCmp(x[1].m, x[2].m) >= 0 THEN 52 ELSE 53))
DFloor[x \in Doubles] ==
    IF x.e >= 0 THEN BInt(BShl[<<x.m, x.e>>]) ELSE BInt(BShr[<<x.m, -x.e>>].q)
DCeil[x \in Doubles] ==
    IF x.e >= 0 THEN BInt(BShl[<<x.m, x.e>>])
    ELSE BInt(BShr[<<x.m, -x.e>>].q) + (IF BShr[<<x.m, -x.e>>].any THEN 1 ELSE 0)
\* len(np.arange(0, T * (N + 1), T)) = ceil((stop - start) / step)
ArangeLen(Tv, Nv) == DCeil[DDiv[<<DMul[<<Double[Tv], Nv + 1>>], Double[Tv]>>]]
\* int(T * 1000)
Millis(Tv) == DFloor[DMul[<<Double[Tv], 1000>>]]
\* Both, computed once for the inputs followed.
AllStepInts == StepInts \cup ProfileStepInts
AllStepCounts == StepCounts \cup ProfileStepCounts
SampleCount == [Tv \in AllStepInts |-> [Nv \in AllStepCounts |-> ArangeLen(Tv, Nv)]]
IntervalMs == [Tv \in AllStepInts |-> Millis(Tv)]

\* ----------------------------------------------------------------- state
VARIABLES
    timerActive,        \* rf_timer.isActive()
    interval,           \* rf_timer.interval(), in ms
    rf_remaining_time,
    rf_sim,
    rf_sim_end,
    rf_sim_vline,       \* value of the position marker, in s
    V_open, V_close, T, N, formula,   \* the input widgets
    btnEnabled, btnText,              \* rf_open_trap_btn, rf_close_trap_btn
    ctrlEnabled,        \* the widgets of rf_controls
    pending,            \* QTimer.singleShot callbacks not fired yet, oldest first
    rfSweeping,         \* instrument: start_list_sweep was sent after the last stop_sweep
    rfSelected,         \* instrument: file chosen by change_list_sweep
    rfFiles,            \* instrument: list-sweep programs stored by set_list_sweep
    run,                \* history: timer ticks of the sweep since its start toggle,
                        \* Unset once anything but the timer has acted on the sweep
    userActive          \* the user still gives input (clicks, edits)

vars == <<timerActive, interval, rf_remaining_time, rf_sim, rf_sim_end,
          rf_sim_vline, V_open, V_close, T, N, formula, btnEnabled, btnText,
          ctrlEnabled, pending, rfSweeping, rfSelected, rfFiles, run, userActive>>

Cur ==
    [timerActive |-> timerActive, interval |-> interval,
     rf_remaining_time |-> rf_remaining_time, rf_sim |-> rf_sim,
     rf_sim_end |-> rf_sim_end, rf_sim_vline |-> rf_sim_vline,
     V_open |-> V_open, V_close |-> V_close, T |-> T, N |-> N, formula |-> formula,
     btnEnabled |-> btnEnabled, btnText |-> btnText, ctrlEnabled |-> ctrlEnabled,
     pending |-> pending, rfSweeping |-> rfSweeping, rfSelected |-> rfSelected,
     rfFiles |-> rfFiles]

\* The state a handler leaves.  An uncaught exception in a slot is reported
\* and the event loop goes on; where the installation ends the process
\* instead, the state left is the same one and no step follows it.
Commit(r) ==
    /\ timerActive' = r.st.timerActive
    /\ interval' = r.st.interval
    /\ rf_remaining_time' = r.st.rf_remaining_time
    /\ rf_sim' = r.st.rf_sim
    /\ rf_sim_end' = r.st.rf_sim_end
    /\ rf_sim_vline' = r.st.rf_sim_vline
    /\ V_open' = r.st.V_open
    /\ V_close' = r.st.V_close
    /\ T' = r.st.T
    /\ N' = r.st.N
    /\ formula' = r.st.formula
    /\ btnEnabled' = r.st.btnEnabled
    /\ btnText' = r.st.btnText
    /\ ctrlEnabled' = r.st.ctrlEnabled
    /\ pending' = r.st.pending
    /\ rfSweeping' = r.st.rfSweeping
    /\ rfSelected' = r.st.rfSelected
    /\ rfFiles' = r.st.rfFiles
    /\ userActive' = userActive

Done(s) == [st |-> s, ok |-> TRUE]
Raised(s) == [st |-> s, ok |-> FALSE]

\* The instrument calls of the handlers; a handler is given the one that
\* raises ("none": the instrument answers every call).
EndFaults == {"none", "get_frequency", "get_power", "stop_sweep"}
ToggleFaults == EndFaults \cup {"change_list_sweep", "start_list_sweep"}
UploadFaults == {"none", "set_list_sweep_close", "set_list_sweep_open"}
MaxVoltFaults == {"none", "set_power_limit"}

\* -------------------------------------------------------------- handlers
BothButtons(s, on) == [s EXCEPT !.btnEnabled = [b \in Btns |-> on]]

lock_rf_control(s) == BothButtons([s EXCEPT !.ctrlEnabled = FALSE], FALSE)

unlock_rf_control(s) == [s EXCEPT !.ctrlEnabled = TRUE]

\* rf_cur_freq and rf_cur_volt are QDoubleSpinBoxes of rf_controls: a setValue
\* with a value other than the shown one emits valueChanged, which disables
\* both trap buttons (chg: a value read differs from the one shown; when
\* get_power raises, the frequency was the one that differed).
update_rf_status(s, f, chg) ==
    IF f = "get_frequency" THEN Raised(s)
    ELSE LET s1 == IF chg THEN BothButtons(s, FALSE) ELSE s IN
         IF f = "get_power" THEN Raised(s1) ELSE Done(s1)

end_volt_evol(s, enable_btn, f, chg) ==
    LET u == update_rf_status(s, f, chg) IN
    IF ~u.ok THEN u
    ELSE LET s1 == [u.st EXCEPT !.timerActive = FALSE] IN
         IF f = "stop_sweep" THEN Raised(s1)
         ELSE LET s2 == unlock_rf_control([s1 EXCEPT !.rfSweeping = FALSE])
                  s3 == IF enable_btn THEN BothButtons(s2, TRUE) ELSE s2
              IN Done([s3 EXCEPT !.btnText = DefaultText])

\* simul_volt_evol with the end test read as rf_sim > rf_sim_end.
simul_volt_evol_late(s, f, chg) ==
    IF s.rf_sim_vline = Unset THEN Raised(s)
    ELSE LET s1 == [s EXCEPT !.rf_sim_vline = (s.rf_sim * s.interval) \div 1000] IN
         IF s.rf_sim > s.rf_sim_end
         THEN LET s2 == [BothButtons(s1, FALSE) EXCEPT !.rf_sim_vline = 0]
                  e == end_volt_evol(s2, TRUE, f, chg)
              IN IF ~e.ok THEN e
                 ELSE Done([e.st EXCEPT !.rf_sim = s.rf_sim + 1])
         ELSE Done([s1 EXCEPT !.rf_sim = s.rf_sim + 1])

simul_volt_evol(s, f, chg) ==
    IF s.rf_sim_vline = Unset THEN Raised(s)     \* AttributeError
    \* interval() / 1000 is a whole number of seconds for the intervals followed
    ELSE LET s1 == [s EXCEPT !.rf_sim_vline = (s.rf_sim * s.interval) \div 1000] IN
         IF s.rf_sim >= s.rf_sim_end
         THEN LET s2 == [BothButtons(s1, FALSE) EXCEPT !.rf_sim_vline = 0]
                  e == end_volt_evol(s2, TRUE, f, chg)
              IN IF ~e.ok THEN e
                 ELSE Done([e.st EXCEPT !.rf_sim = s.rf_sim + 1])
         ELSE Done([s1 EXCEPT !.rf_sim = s.rf_sim + 1])

resume_simul_volt_evol(s, btn, f, chg) ==
    LET r == simul_volt_evol(s, f, chg) IN
    IF ~r.ok THEN r
    ELSE Done([r.st EXCEPT !.timerActive = TRUE, !.btnEnabled[btn] = TRUE])

OneShot(kind, btn) == [kind |-> kind, btn |-> btn]

toggle_volt_evol(s, btn, remaining, f, chg) ==
    IF s.rf_remaining_time # 0
    THEN \* resuming
         IF f = "start_list_sweep" THEN Raised(s)
         ELSE Done([s EXCEPT !.rfSweeping = TRUE,
                             !.pending = Append(s.pending, OneShot("resume", btn)),
                             !.rf_remaining_time = 0,
                             !.btnText[btn] = "Pause",
                             !.btnEnabled[btn] = FALSE])
    ELSE IF s.timerActive
    THEN \* pausing
         LET s1 == [s EXCEPT !.rf_remaining_time = remaining]
             e == end_volt_evol(s1, FALSE, f, chg)
         IN IF ~e.ok THEN e
            ELSE Done([e.st EXCEPT !.btnText[btn] = "Resume",
                                   !.pending = Append(e.st.pending, OneShot("enable", btn))])
    ELSE \* starting
         IF f = "change_list_sweep" THEN Raised(s)
         ELSE LET s1 == [s EXCEPT !.rfSelected = FileOf(btn)] IN
              IF f = "start_list_sweep" THEN Raised(s1)
              ELSE LET s2 == [s1 EXCEPT !.rfSweeping = TRUE, !.timerActive = TRUE,
                                        !.rf_sim = 1]
                   IN Done([lock_rf_control(s2) EXCEPT !.btnEnabled[btn] = TRUE,
                                                       !.btnText[btn] = "Pause"])

\* eval(formula) over t = np.arange(0, T * (N + 1), T); "" stands for "t".
\* The value is an array, or a scalar (which V_t[0] cannot index).
IsArray(fm) == fm \in {"", "t", "t**2", "(t-1)**2", "0*t"}
Evaluate(fm, t) ==
    [i \in 1..Len(t) |->
        IF fm = "t**2" THEN FMul(t[i], t[i])
        ELSE IF fm = "(t-1)**2" THEN FMul(FSub(t[i], Flt(1)), FSub(t[i], Flt(1)))
        ELSE IF fm = "0*t" THEN Flt(0)
        ELSE t[i]]

Samples(Tv, Nv) == [i \in 1..SampleCount[Tv][Nv] |-> Num((i - 1) * Tv[1], Tv[2])]

\* V_t = (V_t - V_t[0]) / (V_t[-1] - V_t[0]) * (V_close - V_open) + V_open
Normalised(v, Vo, Vc) ==
    [i \in 1..Len(v) |->
        FAdd(FMul(FDiv(FSub(v[i], v[1]), FSub(v[Len(v)], v[1])), Flt(Vc - Vo)), Flt(Vo))]

Voltages(Vo, Vc, Tv, Nv, fm) == Normalised(Evaluate(fm, Samples(Tv, Nv)), Vo, Vc)

Program(pow_list, dwell) == [pow |-> pow_list, dwell |-> dwell]

\* The try block of preview_volt_evol from the first upload on, cut at the
\* upload fu that raises: s0 is the state before it, V_t the voltages.
Uploaded(s0, V_t, fu) ==
    LET s1 == [s0 EXCEPT !.rfFiles[RF_CLOSE_TRAP_FILENAME] = Program(V_t, s0.T)]
        s3 == [BothButtons(s1, TRUE)
                  EXCEPT !.rfFiles[RF_OPEN_TRAP_FILENAME] = Program(Reverse(V_t), s0.T),
                         !.rf_sim_end = s0.N,
                         !.rf_sim_vline = 0,
                         !.interval = IntervalMs[s0.T]]
    IN IF fu = "set_list_sweep_open" THEN s1 ELSE s3

\* preview_volt_evol without its first assignment, rf_remaining_time = 0.
preview_volt_evol_keep(s, fu, f, chg) ==
    LET s0 == s
        tried == IF ~(s.V_open <= s.V_close /\ IsArray(s.formula)) THEN s0
                 ELSE IF fu = "set_list_sweep_close" THEN s0
                 ELSE Uploaded(s0, Voltages(s.V_open, s.V_close, s.T, s.N, s.formula), fu)
    IN end_volt_evol(tried, TRUE, f, chg)

preview_volt_evol(s, fu, f, chg) ==
    LET s0 == [s EXCEPT !.rf_remaining_time = 0]
        tried == IF ~(s.V_open <= s.V_close /\ IsArray(s.formula)) THEN s0
                 ELSE IF fu = "set_list_sweep_close" THEN s0
                 ELSE Uploaded(s0, Voltages(s.V_open, s.V_close, s.T, s.N, s.formula), fu)
    IN end_volt_evol(tried, TRUE, f, chg)

\* --------------------------------------------------------------- actions
\* The inputs of a handler are enumerated only where the handler reads them:
\* an instrument call that is not made cannot raise, and a value that is not
\* read or whose effect is overwritten is taken as its first one.
TogglePath(s) ==
    IF s.rf_remaining_time # 0 THEN "resume"
    ELSE IF s.timerActive THEN "pause" ELSE "start"

ToggleCalls(s) ==
    IF TogglePath(s) = "resume" THEN {"none", "start_list_sweep"}
    ELSE IF TogglePath(s) = "pause" THEN EndFaults
    ELSE {"none", "change_list_sweep", "start_list_sweep"}

\* end_volt_evol(True) enables both buttons after update_rf_status, so chg
\* shows only when a later call raises or the buttons are left alone.
ChgShows(enable_btn, f) ==
    IF enable_btn THEN f \in {"get_power", "stop_sweep"} ELSE f # "get_frequency"
Chgs(shows) == IF shows THEN BOOLEAN ELSE {FALSE}

Completes(s) == s.rf_sim_vline # Unset /\ s.rf_sim >= s.rf_sim_end
Uploads(s) == s.V_open <= s.V_close /\ IsArray(s.formula)

\* A click on rf_open_trap_btn / rf_close_trap_btn; f is the instrument call
\* that raises, remaining what rf_timer.remainingTime() returns.
ToggleStep(btn, f) ==
    /\ btnEnabled[btn]
    /\ TogglePath(Cur) # "start" => Len(pending) < MaxPending
    /\ f \in ToggleCalls(Cur)
    /\ \E remaining \in (IF TogglePath(Cur) = "pause" THEN Remainings ELSE {0}),
          chg \in Chgs(TogglePath(Cur) = "pause" /\ ChgShows(FALSE, f)) :
          LET r == toggle_volt_evol(Cur, btn, remaining, f, chg) IN
          /\ Commit(r)
          /\ run' = (IF r.ok /\ TogglePath(Cur) = "start" THEN 0 ELSE Unset)

Toggle(btn) == \E f \in ToggleFaults : ToggleStep(btn, f)

\* rf_timer.timeout
Timeout(f) ==
    /\ timerActive
    /\ f = "none" \/ Completes(Cur)
    /\ \E chg \in Chgs(Completes(Cur) /\ ChgShows(TRUE, f)) :
          LET r == simul_volt_evol(Cur, f, chg) IN
          /\ Commit(r)
          /\ run' = (IF r.ok /\ run # Unset THEN run + 1 ELSE Unset)

\* rf_sim is followed up to MaxSim.
TickStep(f) == rf_sim < MaxSim /\ Timeout(f)

Tick == \E f \in EndFaults : TickStep(f)

\* A one-shot fires: not before a 1000 ms re-enable scheduled earlier.
CanFire(i) ==
    /\ i \in 1..Len(pending)
    /\ \A j \in 1..(i - 1) : pending[j].kind # "enable"

Without(s, i) == [s EXCEPT !.pending = SubSeq(s.pending, 1, i - 1) \o
                                       SubSeq(s.pending, i + 1, Len(s.pending))]

\* lambda: btn.setEnabled(True), scheduled by a pause
FireEnable(i) ==
    /\ CanFire(i)
    /\ pending[i].kind = "enable"
    /\ Commit(Done([Without(Cur, i) EXCEPT !.btnEnabled[pending[i].btn] = TRUE]))
    /\ run' = run

\* lambda: self.resume_simul_volt_evol(btn), scheduled by a resume
ResumeFires(i, f) ==
    /\ CanFire(i)
    /\ pending[i].kind = "resume"
    /\ f = "none" \/ Completes(Cur)
    /\ \E chg \in Chgs(Completes(Cur) /\ ChgShows(TRUE, f)) :
          LET r == resume_simul_volt_evol(Without(Cur, i), pending[i].btn, f, chg) IN
          /\ Commit(r)
          /\ run' = Unset

FireResumeStep(i, f) == rf_sim < MaxSim /\ ResumeFires(i, f)

FireResume(i) == \E f \in EndFaults : FireResumeStep(i, f)

\* A click on rf_preview_btn.
PreviewStep(fu, f) ==
    /\ ctrlEnabled
    /\ fu = "none" \/ Uploads(Cur)
    /\ \E chg \in Chgs(ChgShows(TRUE, f)) :
          LET r == preview_volt_evol(Cur, fu, f, chg) IN
          /\ Commit(r)
          /\ run' = Unset

Preview == \E fu \in UploadFaults, f \in EndFaults : PreviewStep(fu, f)

\* The user edits one input widget of rf_controls: valueChanged / textChanged.
InputChanged ==
    /\ ctrlEnabled
    /\ \E vo \in OpenVolts, vc \in CloseVolts, tv \in StepInts, nv \in StepCounts, fm \in Formulas :
          /\ Cardinality({k \in 1..5 :
                 <<vo, vc, tv, nv, fm>>[k] # <<V_open, V_close, T, N, formula>>[k]}) = 1
          /\ Commit(Done(BothButtons([Cur EXCEPT !.V_open = vo, !.V_close = vc, !.T = tv,
                                                 !.N = nv, !.formula = fm], FALSE)))
    /\ run' = run

\* The user edits rf_cur_freq or rf_cur_volt.
CurValueChanged ==
    /\ ctrlEnabled
    /\ Commit(Done(BothButtons(Cur, FALSE)))
    /\ run' = run

\* The user edits rf_max_volt.
MaxVoltChanged ==
    /\ Commit(Done(lock_rf_control(Cur)))
    /\ run' = run

set_rf_max_volt(s, f) ==
    IF f = "set_power_limit" THEN Raised(s) ELSE Done(unlock_rf_control(s))

\* A click on rf_max_volt_btn.
SetMaxVoltStep(f) ==
    /\ Commit(set_rf_max_volt(Cur, f))
    /\ run' = run

SetMaxVolt == \E f \in MaxVoltFaults : SetMaxVoltStep(f)

\* ------------------------------------------------------------------ spec
\* MainWindow.__init__: load_config, init_rf_control, preview_volt_evol,
\* lock_rf_control, set_power(0.7), update_rf_status, with the instrument
\* connected and answering.
Fresh(vo, vc, tv, nv, fm) ==
    [timerActive |-> FALSE, interval |-> 0, rf_remaining_time |-> 0,
     rf_sim |-> Unset, rf_sim_end |-> Unset, rf_sim_vline |-> Unset,
     V_open |-> vo, V_close |-> vc, T |-> tv, N |-> nv, formula |-> fm,
     btnEnabled |-> [b \in Btns |-> FALSE], btnText |-> DefaultText,
     ctrlEnabled |-> FALSE, pending |-> <<>>, rfSweeping |-> FALSE,
     rfSelected |-> "none", rfFiles |-> [fl \in Files |-> NoFile]]

Construct(vo, vc, tv, nv, fm, chg) ==
    LET p == preview_volt_evol(Fresh(vo, vc, tv, nv, fm), "none", "none", FALSE).st
    IN update_rf_status(lock_rf_control(p), "none", chg).st

InitWith(s) ==
    /\ timerActive = s.timerActive
    /\ interval = s.interval
    /\ rf_remaining_time = s.rf_remaining_time
    /\ rf_sim = s.rf_sim
    /\ rf_sim_end = s.rf_sim_end
    /\ rf_sim_vline = s.rf_sim_vline
    /\ V_open = s.V_open
    /\ V_close = s.V_close
    /\ T = s.T
    /\ N = s.N
    /\ formula = s.formula
    /\ btnEnabled = s.btnEnabled
    /\ btnText = s.btnText
    /\ ctrlEnabled = s.ctrlEnabled
    /\ pending = s.pending
    /\ rfSweeping = s.rfSweeping
    /\ rfSelected = s.rfSelected
    /\ rfFiles = s.rfFiles
    /\ run = Unset
    /\ userActive = TRUE

Init ==
    \E vo \in OpenVolts, vc \in CloseVolts, tv \in StepInts, nv \in StepCounts, fm \in Formulas :
       \E chg \in BOOLEAN : InitWith(Construct(vo, vc, tv, nv, fm, chg))

Next ==
    \/ \E btn \in Btns : Toggle(btn)
    \/ Tick
    \/ \E i \in 1..MaxPending : FireEnable(i)
    \/ \E i \in 1..MaxPending : FireResume(i)
    \/ Preview
    \/ InputChanged
    \/ CurValueChanged
    \/ MaxVoltChanged
    \/ SetMaxVolt

Spec == Init /\ [][Next]_vars

\* The same program with an instrument that answers every call.
NextOk ==
    \/ \E btn \in Btns : ToggleStep(btn, "none")
    \/ TickStep("none")
    \/ \E i \in 1..MaxPending : FireEnable(i)
    \/ \E i \in 1..MaxPending : FireResumeStep(i, "none")
    \/ PreviewStep("none", "none")
    \/ InputChanged
    \/ CurValueChanged
    \/ MaxVoltChanged
    \/ SetMaxVoltStep("none")

SpecOk == Init /\ [][NextOk]_vars

\* The profile computation: the same program, followed over more values of
\* the input widgets, with the user setting the maximum voltage, editing the
\* inputs and previewing; no sweep is started.
ProfileInputChanged ==
    /\ ctrlEnabled
    /\ \E vo \in ProfileVolts, vc \in ProfileVolts, tv \in ProfileStepInts,
          nv \in ProfileStepCounts, fm \in ProfileFormulas :
          /\ Cardinality({k \in 1..5 :
                 <<vo, vc, tv, nv, fm>>[k] # <<V_open, V_close, T, N, formula>>[k]}) = 1
          /\ Commit(Done(BothButtons([Cur EXCEPT !.V_open = vo, !.V_close = vc, !.T = tv,
                                                 !.N = nv, !.formula = fm], FALSE)))
    /\ run' = run

InitProfile ==
    \E vo \in ProfileVolts, vc \in ProfileVolts, tv \in ProfileStepInts,
       nv \in ProfileStepCounts, fm \in ProfileFormulas, chg \in BOOLEAN :
       InitWith(Construct(vo, vc, tv, nv, fm, chg))

NextProfile ==
    \/ SetMaxVoltStep("none")
    \/ ProfileInputChanged
    \/ PreviewStep("none", "none")

SpecProfile == InitProfile /\ [][NextProfile]_vars

\* The same program, the instrument answering, with a user who gives input
\* (while rf_sim is below MaxSim) and at some moment stops giving any.  The
\* event loop of app.exec_() delivers every timer event that is due: a
\* timeout of the active rf_timer and a pending one-shot fire eventually.
UserStep ==
    \/ \E btn \in Btns : ToggleStep(btn, "none")
    \/ PreviewStep("none", "none")
    \/ InputChanged
    \/ CurValueChanged
    \/ MaxVoltChanged
    \/ SetMaxVoltStep("none")

UserLeaves ==
    /\ userActive
    /\ userActive' = FALSE
    /\ UNCHANGED <<timerActive, interval, rf_remaining_time, rf_sim, rf_sim_end,
                   rf_sim_vline, V_open, V_close, T, N, formula, btnEnabled, btnText,
                   ctrlEnabled, pending, rfSweeping, rfSelected, rfFiles, run>>

EnableFires == \E i \in 1..MaxPending : FireEnable(i)
ResumeFiresOk == \E i \in 1..MaxPending : ResumeFires(i, "none")

NextLive ==
    \/ userActive /\ rf_sim < MaxSim /\ UserStep
    \/ UserLeaves
    \/ Timeout("none")
    \/ EnableFires
    \/ ResumeFiresOk

SpecLive ==
    /\ Init
    /\ [][NextLive]_vars
    /\ WF_vars(Timeout("none"))
    /\ WF_vars(EnableFires)
    /\ WF_vars(ResumeFiresOk)

\* ---------------------------------------------------------------- phases
Idle == ~timerActive /\ rf_remaining_time = 0 /\ btnText = DefaultText
ResumePending == \E i \in 1..Len(pending) : pending[i].kind = "resume"
NonIdle(b) == btnText[b] # DefaultText[b]
AllDisabled == \A b \in Btns : ~btnEnabled[b]

\* A preview has succeeded at least once: rf_sim_end and the marker exist.
HasProfile == rf_sim_end # Unset

\* The input widgets show what the last successful preview uploaded.
InputsPreviewed ==
    /\ V_open <= V_close
    /\ IsArray(formula)
    /\ rf_sim_end = N
    /\ interval = IntervalMs[T]
    /\ rfFiles[RF_CLOSE_TRAP_FILENAME] = Program(Voltages(V_open, V_close, T, N, formula), T)
    /\ rfFiles[RF_OPEN_TRAP_FILENAME].pow = Reverse(rfFiles[RF_CLOSE_TRAP_FILENAME].pow)
    /\ rfFiles[RF_OPEN_TRAP_FILENAME].dwell = T

\* The preview of the inputs shown gets as far as the uploads, and does them.
PreviewUploads == Uploads(Cur) /\ PreviewStep("none", "none")

\* The formula's value at the last time sample is its value at the first.
SameEnds(v) == v[Len(v)] = v[1]
ZeroSpan(s) == SameEnds(Evaluate(s.formula, Samples(s.T, s.N)))

\* The formula's values at t_0 = 0 and at t_N = N * T.
EndValues(s) == Evaluate(s.formula, <<Flt(0), Num(s.N * s.T[1], s.T[2])>>)

\* The step is a toggle of btn that an instrument failure cut.
ToggleRaises(btn) == \E f \in ToggleFaults \ {"none"} : ToggleStep(btn, f)

\* ---------------------------------------------------------------- claims
\* C1: pause and resume preserve the sweep position.  A toggle in Idle makes
\* the controller Running; a toggle of the button of a running sweep makes it
\* Paused; a toggle of the button of a paused sweep (the one reading "Resume")
\* makes it Running again; and neither of the last two changes rf_sim.
C1_PauseResumeKeepPosition ==
    [][\A b \in Btns : ToggleStep(b, "none") =>
          /\ Idle => timerActive'
          /\ (timerActive /\ btnText[b] = "Pause") =>
                (~timerActive' /\ btnText'[b] = "Resume" /\ rf_sim' = rf_sim)
          /\ btnText[b] = "Resume" =>
                (rfSweeping' /\ btnText'[b] = "Pause" /\ rf_sim' = rf_sim)]_vars

\* C2: every toggle processed while the tick source is active leaves the
\* controller Paused with a strictly positive rf_remaining_time, whatever
\* rf_timer.remainingTime() returned (stated of sweeps that have a profile).
C2_PauseRecordsPositiveRemaining ==
    [][\A b \in Btns : (HasProfile /\ timerActive /\ ToggleStep(b, "none")) =>
          (~timerActive' /\ rf_remaining_time' > 0)]_vars

\* C3: in a sweep started by a toggle and touched by nothing but the timer
\* since, with the instrument answering, each of the first rf_sim_end - 1
\* ticks leaves the controller Running and the rf_sim_end-th tick returns it
\* to Idle: timer stopped, instrument told to halt, position marker at 0,
\* input controls enabled, both buttons with their default labels.
C3_NaturalCompletion ==
    [][(HasProfile /\ run # Unset /\ TickStep("none")) =>
          IF run + 1 < rf_sim_end
          THEN timerActive' /\ rfSweeping' /\ rf_sim' = rf_sim + 1 /\ btnText' = btnText
          ELSE /\ run + 1 = rf_sim_end
               /\ ~timerActive'
               /\ ~rfSweeping'
               /\ rf_sim_vline' = 0
               /\ ctrlEnabled'
               /\ btnText' = DefaultText]_vars

\* C3 witness: a sweep of at least two steps has completed by timer ticks alone.
C3_Witness ==
    /\ run = rf_sim_end
    /\ run >= 2
    /\ ~timerActive
    /\ ~rfSweeping
    /\ rf_sim_vline = 0
    /\ btnText = DefaultText

\* C4: at most one direction is non-Idle, and a toggle of one direction is
\* never processed as a pause or a resume of a sweep started in the other
\* direction, the one whose program the start toggle selected (stated of
\* sweeps that have a profile).
C4_MutualExclusion ==
    [][HasProfile =>
          /\ \A b \in Btns :
                (ToggleStep(b, "none") /\ TogglePath(Cur) # "start") => rfSelected = FileOf(b)
          /\ Cardinality({b \in Btns : NonIdle(b)}') <= 1]_vars

\* C5: a toggle cut by an instrument failure leaves the timer's active flag,
\* rf_remaining_time and rf_sim as they were before it (stated of sweeps that
\* have a profile).
C5_FailureKeepsPhase ==
    [][\A b \in Btns : (HasProfile /\ ToggleRaises(b)) =>
          UNCHANGED <<timerActive, rf_remaining_time, rf_sim>>]_vars

\* C6: once an input control has changed after the last successful preview,
\* the open and close buttons stay disabled until a new preview succeeds: no
\* timer tick, delayed callback, pause, resume or completion enables one.
C6_InvalidatedStaysDisabled ==
    [][(/\ HasProfile
        /\ ~InputsPreviewed
        /\ AllDisabled
        /\ \/ TickStep("none")
           \/ \E b \in Btns : ToggleStep(b, "none")
           \/ \E i \in 1..MaxPending : FireEnable(i) \/ FireResumeStep(i, "none")) => AllDisabled']_vars

\* C7: a preview with V_open > V_close uploads no program and leaves the
\* open and close buttons disabled.
C7_InvalidRangeDisables ==
    [][(V_open > V_close /\ PreviewStep("none", "none")) => (rfFiles' = rfFiles /\ AllDisabled')]_vars

\* C8: rf_remaining_time is nonzero only while the timer is not active, and
\* rf_sim advances only while the controller is Running: the timer active or
\* a resumption awaited by a button reading "Pause".
C8_RemainingAndPositionByPhase ==
    [][/\ rf_remaining_time' # 0 => ~timerActive'
       /\ (rf_sim # Unset /\ rf_sim' > rf_sim) =>
             \/ timerActive
             \/ ResumePending /\ \E b \in Btns : btnText[b] = "Pause"]_vars

\* C9: once a sweep has been started, rf_sim is within 0..rf_sim_end.
C9_PositionInRange ==
    (HasProfile /\ rf_sim # Unset) => rf_sim \in 0..rf_sim_end

C11_OpeningIsReverse ==
    [][PreviewUploads =>
          LET closing == rfFiles'[RF_CLOSE_TRAP_FILENAME]
              opening == rfFiles'[RF_OPEN_TRAP_FILENAME]
          IN /\ opening.pow = Reverse(closing.pow)
             /\ Len(closing.pow) = N + 1
             /\ Len(opening.pow) = N + 1
             /\ closing.dwell = T
             /\ opening.dwell = T]_vars

\* C12: a preview of a formula whose value at the last time sample equals its
\* value at the first, with V_open <= V_close, uploads no program and makes
\* no profile available: the stored programs and the sweep's length and
\* interval stay as they were.
C12_ZeroSpanFails ==
    [][(V_open <= V_close /\ IsArray(formula) /\ ZeroSpan(Cur)
        /\ PreviewStep("none", "none")) =>
          UNCHANGED <<rfFiles, rf_sim_end, interval>>]_vars

\* C13: after a preview with V_open <= V_close and a formula whose values at
\* t_0 and t_N differ, the closing program starts at V_open and its value of
\* index rf_num_steps is V_close.
C13_ProfileEndpoints ==
    [][(PreviewUploads /\ EndValues(Cur)[1] # EndValues(Cur)[2]) =>
          LET voltages == rfFiles'[RF_CLOSE_TRAP_FILENAME].pow
          IN /\ voltages[1] = Flt(V_open)
             /\ voltages[N + 1] = Flt(V_close)]_vars

\* A timer callback runs simul_volt_evol with the instrument answering: the
\* periodic timeout, or the one-shot of a resume.
TimeoutTick == TickStep("none")
ResumeTick == \E i \in 1..MaxPending : FireResumeStep(i, "none")

\* C14: a tick that finds rf_sim >= rf_sim_end and ends the sweep leaves
\* rf_timer inactive, also when it is the tick of resume_simul_volt_evol.
C14_CompletionStopsTimer ==
    [][(Completes(Cur) /\ (TimeoutTick \/ ResumeTick)) => ~timerActive']_vars

\* A click that starts a sweep, with the instrument answering.
StartStep == \E btn \in Btns : TogglePath(Cur) = "start" /\ ToggleStep(btn, "none")

\* C15: a preview, and the start of a sweep, cancel a pending resume
\* one-shot: none is pending after either, so none fires later.
C15_NoStaleResume ==
    [][(PreviewStep("none", "none") \/ StartStep) => ~ResumePending']_vars

\* A click on the button btn that issues start_list_sweep, on the start path
\* or on the resume path, with the instrument answering.
StartsListSweep(btn) == TogglePath(Cur) \in {"start", "resume"} /\ ToggleStep(btn, "none")

\* C16: whenever a toggle of a direction issues start_list_sweep, the file
\* selected on the instrument when the sweep starts is that direction's.
C16_SelectedIsToggled ==
    [][\A b \in Btns : StartsListSweep(b) => rfSelected' = FileOf(b)]_vars

\* C17: while rf_timer is active the last sweep command sent to the
\* instrument is start_list_sweep, so no timeout advances rf_sim while the
\* instrument is halted.
C17_TimerOnlyWhileSweeping == timerActive => rfSweeping

\* C18: once the user gives no more input, a state in which rf_timer is
\* active or a resume one-shot is pending is followed by Idle with the
\* instrument told to halt.
C18_SweepEnds ==
    (~userActive /\ (timerActive \/ ResumePending)) ~> (Idle /\ ~rfSweeping)

\* C19: from a resume toggle until its one-shot fires, that is while a
\* resume one-shot is pending, both buttons are disabled.
C19_ResumeWindowDisabled == ResumePending => AllDisabled
====
